---- MODULE Spec2Model ----
(***************************************************************************)
(* The schema normalisation and validation pipeline of                     *)
(* EnhancedGoogleDriveEmployeeScraper (src/employee_scraper.py):           *)
(* normalize_field_name, preserve_phone_number, parse_date,                *)
(* map_employee_fields and validate_employee_data.                         *)
(*                                                                         *)
(* A Python str is a sequence of one-character strings, so that trimming,  *)
(* lower-casing and the regular expressions of the code are computed on    *)
(* the characters.  A dict is a function whose domain is its set of keys.  *)
(***************************************************************************)
EXTENDS Integers, Sequences, FiniteSets, TLC

VARIABLES raw_data, mapped_data, validation_results, pc,
          self_field_mappings, results,
          max_retries, retry_delay, attempt, sleeps, last_error, download

\* what download_file_with_retry reads and writes
download_vars == <<max_retries, retry_delay, attempt, sleeps, last_error, download>>

vars == <<raw_data, mapped_data, validation_results, pc, self_field_mappings,
          results, download_vars>>

----------------------------------------------------------------------------
(* Characters and the str methods the code uses *)

\* Python None, and the NaN pandas puts in an empty cell: not a str
None == <<"None">>

\* pd.isna / pd.notna on a cell
isna(v) == v = None

LowerLetters ==
  <<"a","b","c","d","e","f","g","h","i","j","k","l","m",
    "n","o","p","q","r","s","t","u","v","w","x","y","z">>

UpperLetters ==
  <<"A","B","C","D","E","F","G","H","I","J","K","L","M",
    "N","O","P","Q","R","S","T","U","V","W","X","Y","Z">>

Range(s) == {s[i] : i \in 1..Len(s)}

Letters == Range(LowerLetters) \cup Range(UpperLetters)

Digits == {"0","1","2","3","4","5","6","7","8","9"}

\* \s of the re module and the characters str.strip() removes
Whitespace == {" ", "\t", "\n"}

\* \w of the re module
WordChars == Letters \cup Digits \cup {"_"}

Min(S) == CHOOSE x \in S : \A y \in S : x <= y

Max(S) == CHOOSE x \in S : \A y \in S : y <= x

\* the lower-case letter of each upper-case letter
ToLower ==
  [c \in Range(UpperLetters) |->
     LowerLetters[CHOOSE i \in 1..Len(UpperLetters) : UpperLetters[i] = c]]

lower_char(c) == IF c \in DOMAIN ToLower THEN ToLower[c] ELSE c

\* str.lower()
lower(s) == [i \in 1..Len(s) |-> lower_char(s[i])]

\* str.lstrip(chars)
RECURSIVE lstrip_chars(_, _)
lstrip_chars(s, chars) ==
  IF s # <<>> /\ Head(s) \in chars THEN lstrip_chars(Tail(s), chars) ELSE s

\* str.rstrip(chars)
RECURSIVE rstrip_chars(_, _)
rstrip_chars(s, chars) ==
  IF s # <<>> /\ s[Len(s)] \in chars
    THEN rstrip_chars(SubSeq(s, 1, Len(s) - 1), chars)
    ELSE s

\* str.strip(chars)
strip_chars(s, chars) == rstrip_chars(lstrip_chars(s, chars), chars)

\* str.strip()
strip(s) == strip_chars(s, Whitespace)

\* sub in s
Contains(sub, s) ==
  \E i \in 0..(Len(s) - Len(sub)) : SubSeq(s, i + 1, i + Len(sub)) = sub

\* bool(v) of a str or None
Truthy(v) == v # None /\ v # <<>>

\* dict.get(key)
get(d, key) == IF key \in DOMAIN d THEN d[key] ELSE None

----------------------------------------------------------------------------
(* normalize_field_name *)

\* re.sub(r'[^\w\s]', '_', s)
sub_special(s) ==
  [i \in 1..Len(s) |->
     IF s[i] \in WordChars \/ s[i] \in Whitespace THEN s[i] ELSE "_"]

\* re.sub(r'[\s_]+', '_', s): the first character of every run of
\* whitespace and underscores becomes the underscore, the rest of the run goes
RECURSIVE sub_runs(_, _)
sub_runs(s, i) ==
  IF i > Len(s) THEN <<>>
  ELSE IF s[i] \in Whitespace \cup {"_"}
    THEN IF i > 1 /\ s[i - 1] \in Whitespace \cup {"_"}
           THEN sub_runs(s, i + 1)
           ELSE <<"_">> \o sub_runs(s, i + 1)
    ELSE <<s[i]>> \o sub_runs(s, i + 1)

normalize_field_name(field_name) ==
  IF isna(field_name) THEN <<>>
  ELSE strip_chars(sub_runs(sub_special(strip(lower(field_name))), 1), {"_"})

----------------------------------------------------------------------------
\* the synonyms of job_title with 'contact', a synonym of phone_number, listed
\* among them
job_title_keys_with_contact ==
  <<
    <<"j","o","b","_","t","i","t","l","e">>,
    <<"t","i","t","l","e">>,
    <<"p","o","s","i","t","i","o","n">>,
    <<"r","o","l","e">>,
    <<"j","o","b"," ","t","i","t","l","e">>,
    <<"d","e","s","i","g","n","a","t","i","o","n">>,
    <<"j","o","b","_","p","o","s","i","t","i","o","n">>,
    <<"j","o","b">>,
    <<"o","c","c","u","p","a","t","i","o","n">>,
    <<"p","o","s","t">>,
    <<"r","a","n","k">>,
    <<"j","o","b","_","r","o","l","e">>,
    <<"p","o","s","i","t","i","o","n","_","t","i","t","l","e">>,
    <<"c","o","n","t","a","c","t">>
  >>

\* the synonyms of job_title, in priority order
job_title_keys ==
  <<
    <<"j","o","b","_","t","i","t","l","e">>,
    <<"t","i","t","l","e">>,
    <<"p","o","s","i","t","i","o","n">>,
    <<"r","o","l","e">>,
    <<"j","o","b"," ","t","i","t","l","e">>,
    <<"d","e","s","i","g","n","a","t","i","o","n">>,
    <<"j","o","b","_","p","o","s","i","t","i","o","n">>,
    <<"j","o","b">>,
    <<"o","c","c","u","p","a","t","i","o","n">>,
    <<"p","o","s","t">>,
    <<"r","a","n","k">>,
    <<"j","o","b","_","r","o","l","e">>,
    <<"p","o","s","i","t","i","o","n","_","t","i","t","l","e">>
  >>

(* self.field_mappings: the canonical fields in declaration order, each    *)
(* with its synonyms in priority order                                     *)

field_mappings ==
  <<
    [standard_field |-> "employee_id", possible_keys |-> <<
       <<"e","m","p","l","o","y","e","e","_","i","d">>,
       <<"e","m","p","_","i","d">>,
       <<"i","d">>,
       <<"e","m","p","l","o","y","e","e"," ","i","d">>,
       <<"e","m","p","i","d">>,
       <<"e","m","p","l","o","y","e","e","_","n","u","m","b","e","r">>,
       <<"e","m","p","l","o","y","e","e","_","n","o">>,
       <<"e","m","p","_","n","o">>,
       <<"s","t","a","f","f","_","i","d">>,
       <<"s","t","a","f","f","_","n","u","m","b","e","r">>,
       <<"w","o","r","k","e","r","_","i","d">>,
       <<"b","a","d","g","e","_","n","u","m","b","e","r">>,
       <<"u","s","e","r","_","i","d">>,
       <<"u","s","e","r","i","d">>,
       <<"u","s","e","r"," ","i","d">>,
       <<"u","s","e","r","_","n","u","m","b","e","r">>,
       <<"u","s","e","r","_","n","o">>,
       <<"u","i","d">>,
       <<"u","s","e","r">>
    >>],
    [standard_field |-> "first_name", possible_keys |-> <<
       <<"f","i","r","s","t","_","n","a","m","e">>,
       <<"f","i","r","s","t","n","a","m","e">>,
       <<"f","i","r","s","t"," ","n","a","m","e">>,
       <<"f","n","a","m","e">>,
       <<"g","i","v","e","n","_","n","a","m","e">>,
       <<"f","i","r","s","t">>,
       <<"f","o","r","e","n","a","m","e">>,
       <<"c","h","r","i","s","t","i","a","n","_","n","a","m","e">>,
       <<"n","a","m","e","_","f","i","r","s","t">>
    >>],
    [standard_field |-> "last_name", possible_keys |-> <<
       <<"l","a","s","t","_","n","a","m","e">>,
       <<"l","a","s","t","n","a","m","e">>,
       <<"l","a","s","t"," ","n","a","m","e">>,
       <<"l","n","a","m","e">>,
       <<"s","u","r","n","a","m","e">>,
       <<"f","a","m","i","l","y","_","n","a","m","e">>,
       <<"l","a","s","t">>,
       <<"n","a","m","e","_","l","a","s","t">>,
       <<"f","a","m","i","l","y">>,
       <<"n","a","m","e","_","f","a","m","i","l","y">>
    >>],
    [standard_field |-> "email", possible_keys |-> <<
       <<"e","m","a","i","l">>,
       <<"e","m","a","i","l","_","a","d","d","r","e","s","s">>,
       <<"e","_","m","a","i","l">>,
       <<"m","a","i","l">>,
       <<"e","m","a","i","l"," ","a","d","d","r","e","s","s">>,
       <<"e","-","m","a","i","l">>,
       <<"w","o","r","k","_","e","m","a","i","l">>,
       <<"b","u","s","i","n","e","s","s","_","e","m","a","i","l">>,
       <<"c","o","m","p","a","n","y","_","e","m","a","i","l">>
    >>],
    [standard_field |-> "job_title", possible_keys |-> job_title_keys],
    [standard_field |-> "phone_number", possible_keys |-> <<
       <<"p","h","o","n","e">>,
       <<"p","h","o","n","e","_","n","u","m","b","e","r">>,
       <<"m","o","b","i","l","e">>,
       <<"c","o","n","t","a","c","t">>,
       <<"t","e","l","e","p","h","o","n","e">>,
       <<"p","h","o","n","e"," ","n","u","m","b","e","r">>,
       <<"c","e","l","l">>,
       <<"c","e","l","l","_","p","h","o","n","e">>,
       <<"m","o","b","i","l","e","_","p","h","o","n","e">>,
       <<"w","o","r","k","_","p","h","o","n","e">>,
       <<"b","u","s","i","n","e","s","s","_","p","h","o","n","e">>,
       <<"t","e","l">>,
       <<"c","o","n","t","a","c","t","_","n","u","m","b","e","r">>,
       <<"p","h","o","n","e","_","n","o">>,
       <<"m","o","b","i","l","e","_","n","o">>,
       <<"c","e","l","l","_","n","o">>
    >>],
    [standard_field |-> "hire_date", possible_keys |-> <<
       <<"h","i","r","e","_","d","a","t","e">>,
       <<"s","t","a","r","t","_","d","a","t","e">>,
       <<"j","o","i","n","_","d","a","t","e">>,
       <<"e","m","p","l","o","y","m","e","n","t","_","d","a","t","e">>,
       <<"h","i","r","e","d","_","d","a","t","e">>,
       <<"d","a","t","e","_","h","i","r","e","d">>,
       <<"j","o","i","n","i","n","g","_","d","a","t","e">>,
       <<"s","t","a","r","t","_","e","m","p","l","o","y","m","e","n","t">>,
       <<"e","m","p","l","o","y","m","e","n","t","_","s","t","a","r","t">>,
       <<"d","a","t","e","_","j","o","i","n","e","d">>,
       <<"o","n","b","o","a","r","d","_","d","a","t","e">>
    >>],
    [standard_field |-> "date_of_birth", possible_keys |-> <<
       <<"d","a","t","e","_","o","f","_","b","i","r","t","h">>,
       <<"d","o","b">>,
       <<"b","i","r","t","h","_","d","a","t","e">>,
       <<"b","i","r","t","h","d","a","t","e">>,
       <<"d","a","t","e"," ","o","f"," ","b","i","r","t","h">>,
       <<"b","i","r","t","h","d","a","y">>,
       <<"b","i","r","t","h","_","d","a","y">>,
       <<"b","o","r","n","_","d","a","t","e">>,
       <<"d","a","t","e","_","b","o","r","n">>,
       <<"b","i","r","t","h">>,
       <<"d","o","b","_","d","a","t","e">>
    >>]
  >>

\* the synonyms as the mapping loop compares them: each through
\* normalize_field_name
normalized_mappings ==
  [f \in 1..Len(field_mappings) |->
     [j \in 1..Len(field_mappings[f].possible_keys) |->
        normalize_field_name(field_mappings[f].possible_keys[j])]]

\* the table of a caller who has assigned scraper.field_mappings: the one
\* __init__ sets, with 'contact' added to the synonyms of email
shared_mappings ==
  [f \in 1..Len(field_mappings) |->
     IF field_mappings[f].standard_field = "email"
       THEN [field_mappings[f] EXCEPT
               !.possible_keys = Append(@, <<"c","o","n","t","a","c","t">>)]
       ELSE field_mappings[f]]

\* the tables self.field_mappings holds in the model
MappingTables == {field_mappings, shared_mappings}

\* the synonyms of each of them as the mapping loop compares them
normalized_tables ==
  [mappings \in MappingTables |->
     [f \in 1..Len(mappings) |->
        [j \in 1..Len(mappings[f].possible_keys) |->
           normalize_field_name(mappings[f].possible_keys[j])]]]

\* normalize_field_name(possible_key) for the synonyms of self.field_mappings
normalized_keys == normalized_tables[self_field_mappings]

----------------------------------------------------------------------------
(* preserve_phone_number *)

\* re.search(r'\d{7,}', phone): seven digits in a row somewhere
has_digit_run(phone) ==
  \E i \in 1..(Len(phone) - 6) : \A k \in 0..6 : phone[i + k] \in Digits

\* preserve_phone_number reduced to the digits
preserve_phone_digits(phone) ==
  IF isna(phone) \/ phone = <<>> THEN <<>>
  ELSE SelectSeq(strip(phone), LAMBDA c : c \in Digits)

preserve_phone_number(phone) ==
  IF isna(phone) \/ phone = <<>> THEN <<>> ELSE strip(phone)

----------------------------------------------------------------------------
(* Dates: datetime.strptime, date.isoformat, datetime.fromisoformat and    *)
(* pd.to_datetime as parse_date and the validator use them                 *)

\* a parse that raised
Failed == [ok |-> FALSE]

\* pandas' NaT
NaT == [ok |-> TRUE, nat |-> TRUE]

Date(y, m, d) == [ok |-> TRUE, nat |-> FALSE, year |-> y, month |-> m, day |-> d]

DigitVal(c) == CHOOSE n \in 0..9 : <<"0","1","2","3","4","5","6","7","8","9">>[n + 1] = c

DigitChar(n) == <<"0","1","2","3","4","5","6","7","8","9">>[n + 1]

IsLeap(y) == (y % 4 = 0 /\ y % 100 # 0) \/ y % 400 = 0

DaysInMonth(y, m) ==
  IF m = 2 THEN (IF IsLeap(y) THEN 29 ELSE 28)
  ELSE IF m \in {4, 6, 9, 11} THEN 30 ELSE 31

\* what the datetime constructor accepts
ValidDate(y, m, d) ==
  /\ y \in 1..9999
  /\ m \in 1..12
  /\ d \in 1..DaysInMonth(y, m)

\* date.isoformat(): YYYY-MM-DD, zero padded
isoformat(dt) ==
  IF dt.nat THEN <<"N","a","T">>
  ELSE << DigitChar(dt.year \div 1000), DigitChar((dt.year \div 100) % 10),
          DigitChar((dt.year \div 10) % 10), DigitChar(dt.year % 10), "-",
          DigitChar(dt.month \div 10), DigitChar(dt.month % 10), "-",
          DigitChar(dt.day \div 10), DigitChar(dt.day % 10) >>

date_formats ==
  <<
    <<"%","Y","-","%","m","-","%","d">>,
    <<"%","m","/","%","d","/","%","Y">>,
    <<"%","d","/","%","m","/","%","Y">>,
    <<"%","m","-","%","d","-","%","Y">>,
    <<"%","d","-","%","m","-","%","Y">>,
    <<"%","Y","/","%","m","/","%","d">>,
    <<"%","d",".","%","m",".","%","Y">>,
    <<"%","m",".","%","d",".","%","Y">>,
    <<"%","Y",".","%","m",".","%","d">>,
    <<"%","B"," ","%","d",","," ","%","Y">>,
    <<"%","d"," ","%","B"," ","%","Y">>,
    <<"%","b"," ","%","d",","," ","%","Y">>,
    <<"%","d"," ","%","b"," ","%","Y">>,
    <<"%","Y","-","%","m","-","%","d"," ","%","H",":","%","M",":","%","S">>,
    <<"%","m","/","%","d","/","%","Y"," ","%","H",":","%","M",":","%","S">>
  >>

MonthNames ==
  <<
    <<"j","a","n","u","a","r","y">>,
    <<"f","e","b","r","u","a","r","y">>,
    <<"m","a","r","c","h">>,
    <<"a","p","r","i","l">>,
    <<"m","a","y">>,
    <<"j","u","n","e">>,
    <<"j","u","l","y">>,
    <<"a","u","g","u","s","t">>,
    <<"s","e","p","t","e","m","b","e","r">>,
    <<"o","c","t","o","b","e","r">>,
    <<"n","o","v","e","m","b","e","r">>,
    <<"d","e","c","e","m","b","e","r">>
  >>

\* the two characters a, b against the regular expression strptime builds
\* for a numeric directive
TwoChars(D, a, b) ==
  CASE D = "m" -> (a = "1" /\ b \in {"0","1","2"}) \/ (a = "0" /\ b \in Digits \ {"0"})
    [] D = "d" -> \/ (a = "3" /\ b \in {"0","1"})
                  \/ (a \in {"1","2"} /\ b \in Digits)
                  \/ (a \in {"0"," "} /\ b \in Digits \ {"0"})
    [] D = "H" -> (a = "2" /\ b \in {"0","1","2","3"}) \/ (a \in {"0","1"} /\ b \in Digits)
    [] D = "M" -> a \in {"0","1","2","3","4","5"} /\ b \in Digits
    [] D = "S" -> \/ (a = "6" /\ b \in {"0","1"})
                  \/ (a \in {"0","1","2","3","4","5"} /\ b \in Digits)
    [] OTHER -> FALSE

\* the one character a against it
OneChar(D, a) ==
  CASE D \in {"m", "d"} -> a \in Digits \ {"0"}
    [] D \in {"H", "M", "S"} -> a \in Digits
    [] OTHER -> FALSE

\* the ways directive %D can match s from position si on: the field it sets,
\* its value and how many characters it takes
Candidates(D, s, si) ==
  LET left == Len(s) - si + 1
  IN  IF D = "Y"
        THEN IF left >= 4 /\ \A k \in 0..3 : s[si + k] \in Digits
               THEN {[field |-> "Y", len |-> 4,
                      val |-> DigitVal(s[si]) * 1000 + DigitVal(s[si + 1]) * 100
                              + DigitVal(s[si + 2]) * 10 + DigitVal(s[si + 3])]}
               ELSE {}
      ELSE IF D = "B"
        THEN {[field |-> "m", len |-> Len(MonthNames[n]), val |-> n] :
                n \in {n \in 1..12 :
                         /\ left >= Len(MonthNames[n])
                         /\ lower(SubSeq(s, si, si + Len(MonthNames[n]) - 1)) = MonthNames[n]}}
      ELSE IF D = "b"
        THEN {[field |-> "m", len |-> 3, val |-> n] :
                n \in {n \in 1..12 :
                         /\ left >= 3
                         /\ lower(SubSeq(s, si, si + 2)) = SubSeq(MonthNames[n], 1, 3)}}
      ELSE (IF left >= 2 /\ TwoChars(D, s[si], s[si + 1])
              THEN {[field |-> D, len |-> 2,
                     val |-> (IF s[si] = " " THEN 0 ELSE DigitVal(s[si])) * 10
                             + DigitVal(s[si + 1])]}
              ELSE {})
           \cup
           (IF left >= 1 /\ OneChar(D, s[si])
              THEN {[field |-> D, len |-> 1, val |-> DigitVal(s[si])]}
              ELSE {})

\* every way the whole of s from si on matches the format from fi on; the
\* format's white space matches one or more white-space characters, its other
\* characters match themselves, case ignored
RECURSIVE strptime_from(_, _, _, _, _)
strptime_from(fmt, fi, s, si, acc) ==
  IF fi > Len(fmt) THEN (IF si > Len(s) THEN {acc} ELSE {})
  ELSE IF fmt[fi] = "%"
    THEN UNION { strptime_from(fmt, fi + 2, s, si + c.len,
                               [acc EXCEPT ![c.field] = c.val]) :
                   c \in Candidates(fmt[fi + 1], s, si) }
  ELSE IF fmt[fi] \in Whitespace
    THEN UNION { strptime_from(fmt, fi + 1, s, si + n, acc) :
                   n \in {n \in 1..(Len(s) - si + 1) :
                            \A k \in 0..(n - 1) : s[si + k] \in Whitespace} }
  ELSE IF si <= Len(s) /\ lower_char(s[si]) = lower_char(fmt[fi])
    THEN strptime_from(fmt, fi + 1, s, si + 1, acc)
  ELSE {}

\* the fields strptime starts from: 1900-01-01 00:00:00
start_fields ==
  [f \in {"Y","m","d","H","M","S"} |->
     IF f = "Y" THEN 1900 ELSE IF f \in {"m","d"} THEN 1 ELSE 0]

\* the date of the matched fields t: the datetime constructor raises
\* ValueError on a day the month lacks and on second 60 or 61
date_of_fields(t) ==
  IF ValidDate(t["Y"], t["m"], t["d"]) /\ t["S"] <= 59
    THEN Date(t["Y"], t["m"], t["d"])
    ELSE Failed

\* the date of the matches found, ValueError when there is none
matched_date(found) ==
  IF found = {} THEN Failed ELSE date_of_fields(CHOOSE t \in found : TRUE)

\* datetime.strptime(s, fmt).date(), or Failed for its ValueError. Every
\* numeric field of the formats used ends at a literal or at the end of the
\* string, so the matches agree on the fields.
strptime(s, fmt) == matched_date(strptime_from(fmt, 1, s, 1, start_fields))

\* the first attempt if it gave a date, else the second: a try whose except
\* clause moves on to the next attempt
OrElse(a, b) == IF a.ok THEN a ELSE b

\* the strings pandas reads as NaT
nat_strings ==
  { <<"N","a","T">>, <<"n","a","t">>, <<"N","A","T">>,
    <<"n","a","n">>, <<"N","a","N">>, <<"N","A","N">> }

\* YYYYMMDD
compact_date(s) ==
  IF Len(s) = 8 /\ \A i \in 1..8 : s[i] \in Digits
    THEN LET y == DigitVal(s[1]) * 1000 + DigitVal(s[2]) * 100
                  + DigitVal(s[3]) * 10 + DigitVal(s[4])
             m == DigitVal(s[5]) * 10 + DigitVal(s[6])
             d == DigitVal(s[7]) * 10 + DigitVal(s[8])
         IN  IF ValidDate(y, m, d) THEN Date(y, m, d) ELSE Failed
    ELSE Failed

\* %Y-%m-%dT%H:%M:%S
iso_t_format == <<"%","Y","-","%","m","-","%","d","T","%","H",":","%","M",":","%","S">>

\* first_format going on after a match: the last format that accepts decides
RECURSIVE last_format(_, _)
last_format(date_str, i) ==
  IF i > Len(date_formats) THEN Failed
  ELSE OrElse(last_format(date_str, i + 1), strptime(date_str, date_formats[i]))

\* the first of date_formats from index i on that strptime accepts
RECURSIVE first_format(_, _)
first_format(date_str, i) ==
  IF i > Len(date_formats) THEN Failed
  ELSE OrElse(strptime(date_str, date_formats[i]), first_format(date_str, i + 1))

\* pd.to_datetime(s) of a str: the generic parse. It reads what the explicit
\* formats read and, beyond them, the NaT strings, the compact ISO date and the
\* ISO date-time with a T; it raises on text that holds no date.
pd_to_datetime(s) ==
  IF s = <<>> \/ s \in nat_strings THEN NaT
  ELSE OrElse(first_format(s, 1),
              OrElse(compact_date(s), strptime(s, iso_t_format)))

\* datetime.fromisoformat(s): YYYY-MM-DD with two-digit month and day, and
\* optionally one separator character and HH:MM:SS
fromisoformat(s) ==
  LET digits(i, j) == \A k \in i..j : s[k] \in Digits
      num(i, j) == IF j = i + 1 THEN DigitVal(s[i]) * 10 + DigitVal(s[j])
                   ELSE DigitVal(s[i]) * 1000 + DigitVal(s[i + 1]) * 100
                        + DigitVal(s[i + 2]) * 10 + DigitVal(s[j])
      date_ok == /\ Len(s) \in {10, 19}
                 /\ digits(1, 4) /\ s[5] = "-" /\ digits(6, 7) /\ s[8] = "-"
                 /\ digits(9, 10)
                 /\ ValidDate(num(1, 4), num(6, 7), num(9, 10))
      time_ok == \/ Len(s) = 10
                 \/ /\ digits(12, 13) /\ s[14] = ":" /\ digits(15, 16)
                    /\ s[17] = ":" /\ digits(18, 19)
                    /\ num(12, 13) <= 23 /\ num(15, 16) <= 59 /\ num(18, 19) <= 59
  IN  IF date_ok /\ time_ok THEN Date(num(1, 4), num(6, 7), num(9, 10)) ELSE Failed

----------------------------------------------------------------------------
(* parse_date *)

\* what parse_date returns for the stripped string s whose attempts gave
\* parsed_date: its isoformat, or s itself when every attempt raised
iso_or_original(parsed_date, s) ==
  IF parsed_date.ok THEN isoformat(parsed_date) ELSE s

\* the format loop, then the pandas fallback, on the stripped string
parse_stripped(s) ==
  iso_or_original(OrElse(first_format(s, 1), pd_to_datetime(s)), s)

parse_date(date_str) ==
  IF isna(date_str) \/ date_str = <<>> THEN None
  ELSE parse_stripped(strip(date_str))

----------------------------------------------------------------------------
(* map_employee_fields *)

\* a raw row is a sequence of cells [key, value] in column order, its value a
\* str or None

\* the lookup the loop builds from a row: its non-empty cells, the label
\* normalized and the value trimmed, in column order
normalized_row(row) ==
  LET kept == SelectSeq(row, LAMBDA c : ~isna(c.value) /\ strip(c.value) # <<>>)
  IN  [i \in 1..Len(kept) |->
         [key |-> normalize_field_name(kept[i].key), value |-> strip(kept[i].value)]]

\* normalized_key in normalized_row
in_row(nrow, normalized_key) == \E i \in 1..Len(nrow) : nrow[i].key = normalized_key

\* normalized_row[normalized_key]: of two columns with one normalized label the
\* later one has overwritten the earlier
row_value(nrow, normalized_key) ==
  nrow[Max({i \in 1..Len(nrow) : nrow[i].key = normalized_key})].value

\* the field-specific processing of a matched value
process_value(standard_field, value) ==
  CASE standard_field = "phone_number" -> preserve_phone_number(value)
    [] standard_field \in {"hire_date", "date_of_birth"} -> parse_date(value)
    [] standard_field = "email" -> strip(lower(value))
    [] OTHER -> value

\* the synonyms of canonical field f, by position, whose normalized form is a
\* label of the row
matching_keys(nrow, f) ==
  {j \in 1..Len(normalized_keys[f]) : in_row(nrow, normalized_keys[f][j])}

\* first_match without the break: the last match stays
last_match(nrow, f) == Max(matching_keys(nrow, f))

\* the synonym that supplies canonical field f: the loop breaks at the first
first_match(nrow, f) == Min(matching_keys(nrow, f))

\* the employee dict of one row, before the provenance keys are added
map_fields(row) ==
  LET nrow == normalized_row(row)
      matched == {f \in 1..Len(self_field_mappings) : matching_keys(nrow, f) # {}}
  IN  [name \in {self_field_mappings[f].standard_field : f \in matched} |->
         LET f == CHOOSE f \in matched : self_field_mappings[f].standard_field = name
         IN  process_value(name, row_value(nrow, normalized_keys[f][first_match(nrow, f)]))]

\* has_identifying with the phone number counted as identifying
has_identifying_with_phone(employee) ==
  \E field \in {"employee_id", "first_name", "last_name", "email", "phone_number"} :
    Truthy(get(employee, field))

\* has_identifying without the email
has_identifying_without_email(employee) ==
  \E field \in {"employee_id", "first_name", "last_name"} :
    Truthy(get(employee, field))

\* has_identifying with any mapped field at all
has_identifying_any_field(employee) ==
  \E field \in DOMAIN employee : Truthy(employee[field])

\* any(employee.get(field) for field in [...])
has_identifying(employee) ==
  \E field \in {"employee_id", "first_name", "last_name", "email"} :
    Truthy(get(employee, field))

\* original_data with the test the lookup uses: the cells that hold a value
original_data_filled(row) ==
  SelectSeq(row, LAMBDA c : ~isna(c.value) /\ strip(c.value) # <<>>)

\* {k: v for k, v in row.items() if pd.notna(v)}
original_data(row) == SelectSeq(row, LAMBDA c : ~isna(c.value))

\* map_rows numbering the records by their position among the retained
RECURSIVE map_rows_dense(_, _)
map_rows_dense(raw, row_idx) ==
  IF row_idx >= Len(raw) THEN <<>>
  ELSE LET row == raw[row_idx + 1]
           employee == map_fields(row)
           before == {k \in 1..row_idx : has_identifying(map_fields(raw[k]))}
       IN  (IF has_identifying(employee)
              THEN << ("_row_number" :> Cardinality(before) + 1)
                      @@ ("_original_data" :> original_data(row))
                      @@ employee >>
              ELSE <<>>)
           \o map_rows_dense(raw, row_idx + 1)

\* the loop over enumerate(raw_data), from row_idx (0-based) on
RECURSIVE map_rows(_, _)
map_rows(raw, row_idx) ==
  IF row_idx >= Len(raw) THEN <<>>
  ELSE LET row == raw[row_idx + 1]
           employee == map_fields(row)
       IN  (IF has_identifying(employee)
              THEN << ("_row_number" :> row_idx + 1)
                      @@ ("_original_data" :> original_data(row))
                      @@ employee >>
              ELSE <<>>)
           \o map_rows(raw, row_idx + 1)

map_employee_fields(raw) == map_rows(raw, 0)

----------------------------------------------------------------------------
(* validate_employee_data *)

\* "Missing employee identification (ID, name, or email)"
MissingIdentification ==
  <<"M","i","s","s","i","n","g"," ","e","m","p","l","o","y","e","e"," ","i","d","e","n","t","i","f","i","c","a","t","i","o","n"," ","(","I","D",","," ","n","a","m","e",","," ","o","r"," ","e","m","a","i","l",")">>
\* "Missing employee ID"
MissingEmployeeId ==
  <<"M","i","s","s","i","n","g"," ","e","m","p","l","o","y","e","e"," ","I","D">>
\* "Invalid email format"
InvalidEmailFormat ==
  <<"I","n","v","a","l","i","d"," ","e","m","a","i","l"," ","f","o","r","m","a","t">>
\* "Missing email address"
MissingEmail ==
  <<"M","i","s","s","i","n","g"," ","e","m","a","i","l"," ","a","d","d","r","e","s","s">>
\* "Phone number may be invalid format: "
PhoneMayBeInvalid ==
  <<"P","h","o","n","e"," ","n","u","m","b","e","r"," ","m","a","y"," ","b","e"," ","i","n","v","a","l","i","d"," ","f","o","r","m","a","t",":"," ">>
\* "Missing phone number"
MissingPhone ==
  <<"M","i","s","s","i","n","g"," ","p","h","o","n","e"," ","n","u","m","b","e","r">>
\* "Hire date seems unrealistic"
HireDateUnrealistic ==
  <<"H","i","r","e"," ","d","a","t","e"," ","s","e","e","m","s"," ","u","n","r","e","a","l","i","s","t","i","c">>
\* "Invalid hire date format"
InvalidHireDate ==
  <<"I","n","v","a","l","i","d"," ","h","i","r","e"," ","d","a","t","e"," ","f","o","r","m","a","t">>
\* "Missing hire date"
MissingHireDate ==
  <<"M","i","s","s","i","n","g"," ","h","i","r","e"," ","d","a","t","e">>
\* "Date of birth seems unrealistic"
DobUnrealistic ==
  <<"D","a","t","e"," ","o","f"," ","b","i","r","t","h"," ","s","e","e","m","s"," ","u","n","r","e","a","l","i","s","t","i","c">>
\* "Invalid date of birth format"
InvalidDob ==
  <<"I","n","v","a","l","i","d"," ","d","a","t","e"," ","o","f"," ","b","i","r","t","h"," ","f","o","r","m","a","t">>
\* "Missing date of birth"
MissingDob ==
  <<"M","i","s","s","i","n","g"," ","d","a","t","e"," ","o","f"," ","b","i","r","t","h">>
\* "Missing job title"
MissingJobTitle ==
  <<"M","i","s","s","i","n","g"," ","j","o","b"," ","t","i","t","l","e">>
\* "Missing employee identification"
NeedleIdentification ==
  <<"M","i","s","s","i","n","g"," ","e","m","p","l","o","y","e","e"," ","i","d","e","n","t","i","f","i","c","a","t","i","o","n">>
\* "Invalid date"
NeedleInvalidDate ==
  <<"I","n","v","a","l","i","d"," ","d","a","t","e">>

\* datetime.now().year
CurrentYear == 2026

\* email_pattern.match(email) with
\* ^[a-zA-Z0-9._%+-]+@[a-zA-Z0-9.-]+\.[a-zA-Z]{2,}$
LocalChars == Letters \cup Digits \cup {".", "_", "%", "+", "-"}

DomainChars == Letters \cup Digits \cup {".", "-"}

\* email_core with three or more letters after the last dot
email_core_long_tld(s) ==
  \E at \in 2..Len(s) : \E dot \in (at + 2)..(Len(s) - 3) :
    /\ \A i \in 1..(at - 1) : s[i] \in LocalChars
    /\ s[at] = "@"
    /\ \A i \in (at + 1)..(dot - 1) : s[i] \in DomainChars
    /\ s[dot] = "."
    /\ \A i \in (dot + 1)..Len(s) : s[i] \in Letters

\* the pattern up to an end of string
email_core(s) ==
  \E at \in 2..Len(s) : \E dot \in (at + 2)..(Len(s) - 2) :
    /\ \A i \in 1..(at - 1) : s[i] \in LocalChars
    /\ s[at] = "@"
    /\ \A i \in (at + 1)..(dot - 1) : s[i] \in DomainChars
    /\ s[dot] = "."
    /\ \A i \in (dot + 1)..Len(s) : s[i] \in Letters

\* $ matches at the end and before a newline that ends the string
email_pattern_match(s) ==
  \/ email_core(s)
  \/ Len(s) > 0 /\ s[Len(s)] = "\n" /\ email_core(SubSeq(s, 1, Len(s) - 1))

\* datetime.fromisoformat(v) if '-' in v else pd.to_datetime(v)
reparse(v) == IF Contains(<<"-">>, v) THEN fromisoformat(v) ELSE pd_to_datetime(v)

\* the string the date checks skip
NoneStr == <<"N","o","n","e">>

\* the try block of a date check raised
date_raises(v) == v # NoneStr /\ ~reparse(v).ok

\* parsed_date.year < 1950 or parsed_date.year > datetime.now().year; NaT has
\* no year and its comparisons are all false
hire_year_unrealistic(parsed_date) ==
  /\ parsed_date.ok /\ ~parsed_date.nat
  /\ (parsed_date.year < 1950 \/ parsed_date.year > CurrentYear)

\* the hire date check appends its warning
hire_unrealistic(v) == v # NoneStr /\ hire_year_unrealistic(reparse(v))

\* age < 16 or age > 100
age_unrealistic(parsed_dob) ==
  /\ parsed_dob.ok /\ ~parsed_dob.nat
  /\ (CurrentYear - parsed_dob.year < 16 \/ CurrentYear - parsed_dob.year > 100)

\* the date of birth check appends its warning
dob_unrealistic(v) == v # NoneStr /\ age_unrealistic(reparse(v))

has_id(employee) == Truthy(get(employee, "employee_id"))

has_name(employee) ==
  Truthy(get(employee, "first_name")) \/ Truthy(get(employee, "last_name"))

has_email(employee) == Truthy(get(employee, "email"))

If(cond, msg) == IF cond THEN <<msg>> ELSE <<>>

\* the issues list of one record, in the order the checks append
issues_of(employee) ==
  LET email == get(employee, "email")
      hire_date == get(employee, "hire_date")
      dob == get(employee, "date_of_birth")
  IN  If(~(has_id(employee) \/ has_name(employee) \/ has_email(employee)),
         MissingIdentification)
      \o If(Truthy(email) /\ ~email_pattern_match(email), InvalidEmailFormat)
      \o If(Truthy(hire_date) /\ date_raises(hire_date), InvalidHireDate)
      \o If(Truthy(dob) /\ date_raises(dob), InvalidDob)

\* the warnings list of one record, in the order the checks append
warnings_of(employee) ==
  LET phone == get(employee, "phone_number")
      hire_date == get(employee, "hire_date")
      dob == get(employee, "date_of_birth")
  IN  If(~has_id(employee), MissingEmployeeId)
      \o If(~has_email(employee), MissingEmail)
      \o (IF Truthy(phone)
            THEN If(~has_digit_run(phone), PhoneMayBeInvalid \o phone)
            ELSE <<MissingPhone>>)
      \o (IF Truthy(hire_date)
            THEN If(hire_unrealistic(hire_date), HireDateUnrealistic)
            ELSE <<MissingHireDate>>)
      \o (IF Truthy(dob)
            THEN If(dob_unrealistic(dob), DobUnrealistic)
            ELSE <<MissingDob>>)
      \o If(~Truthy(get(employee, "job_title")), MissingJobTitle)

\* the issues that reject a record
critical_issues(issues) ==
  SelectSeq(issues, LAMBDA issue :
    \/ Contains(NeedleIdentification, issue)
    \/ Contains(InvalidEmailFormat, issue)
    \/ Contains(NeedleInvalidDate, issue))

\* the record as the valid list holds it: employee['_warnings'] is set when
\* there are warnings
\* set_warnings adding to the warnings the record already carries
set_warnings_appending(employee, warnings) ==
  IF warnings # <<>>
    THEN ("_warnings" :> (IF "_warnings" \in DOMAIN employee
                            THEN employee["_warnings"] ELSE <<>>) \o warnings)
         @@ employee
    ELSE employee

set_warnings(employee, warnings) ==
  IF warnings # <<>> THEN ("_warnings" :> warnings) @@ employee ELSE employee

with_warnings(employee) == set_warnings(employee, warnings_of(employee))

\* goes_valid with warnings rejecting as well
goes_valid_without_warnings(employee) ==
  critical_issues(issues_of(employee)) = <<>> /\ warnings_of(employee) = <<>>

goes_valid(employee) == critical_issues(issues_of(employee)) = <<>>

\* the entry the invalid list gets
invalid_entry(employee) ==
  [row |-> IF "_row_number" \in DOMAIN employee
             THEN employee["_row_number"]
             ELSE <<"u","n","k","n","o","w","n">>,
   employee |-> employee,
   issues |-> issues_of(employee),
   warnings |-> warnings_of(employee)]

\* one pass of the loop over employees, from index i on
RECURSIVE valid_from(_, _)
valid_from(employees, i) ==
  IF i > Len(employees) THEN <<>>
  ELSE (IF goes_valid(employees[i]) THEN <<with_warnings(employees[i])>> ELSE <<>>)
       \o valid_from(employees, i + 1)

\* invalid_from taking every record with an issue, critical or not
RECURSIVE invalid_from_any_issue(_, _)
invalid_from_any_issue(employees, i) ==
  IF i > Len(employees) THEN <<>>
  ELSE (IF issues_of(employees[i]) = <<>> THEN <<>> ELSE <<invalid_entry(employees[i])>>)
       \o invalid_from_any_issue(employees, i + 1)

\* invalid_from with the rejection carried over to the records that follow
RECURSIVE invalid_from_carrying(_, _)
invalid_from_carrying(employees, i) ==
  IF i > Len(employees) THEN <<>>
  ELSE (IF \E k \in 1..i : ~goes_valid(employees[k])
          THEN <<invalid_entry(employees[i])>> ELSE <<>>)
       \o invalid_from_carrying(employees, i + 1)

RECURSIVE invalid_from(_, _)
invalid_from(employees, i) ==
  IF i > Len(employees) THEN <<>>
  ELSE (IF goes_valid(employees[i]) THEN <<>> ELSE <<invalid_entry(employees[i])>>)
       \o invalid_from(employees, i + 1)

validate_employee_data(employees) ==
  [valid |-> valid_from(employees, 1),
   invalid |-> invalid_from(employees, 1),
   warnings |-> <<>>]

\* the dicts of the valid list are the caller's own: the caller's list sees
\* the _warnings key the validator sets
employees_after_validate(employees) ==
  [i \in 1..Len(employees) |->
     IF goes_valid(employees[i]) THEN with_warnings(employees[i]) ELSE employees[i]]

----------------------------------------------------------------------------
(* The raw rows the parser hands over: a table is its columns in order,    *)
(* each with the cell values the model draws from                          *)

\* identifiers under several labels, a name, and a column no field claims
IdTable ==
  <<
    \* User ID: None, 'u7'
    [key |-> <<"U","s","e","r"," ","I","D">>,
     values |-> {None, <<"u","7">>}],
    \* Employee-ID: None, '  ', 'E1'
    [key |-> <<"E","m","p","l","o","y","e","e","-","I","D">>,
     values |-> {None, <<" "," ">>, <<"E","1">>}],
    \* First Name: '', 'Al'
    [key |-> <<"F","i","r","s","t"," ","N","a","m","e">>,
     values |-> {<<>>, <<"A","l">>}],
    \* Notes: 'x'
    [key |-> <<"N","o","t","e","s">>,
     values |-> {<<"x">>}]
  >>

\* an email column beside empty or filled names
EmailTable ==
  <<
    \* first_name: '', 'Al'
    [key |-> <<"f","i","r","s","t","_","n","a","m","e">>,
     values |-> {<<>>, <<"A","l">>}],
    \* last_name: ''
    [key |-> <<"l","a","s","t","_","n","a","m","e">>,
     values |-> {<<>>}],
    \* E-Mail: None, ' A@b.co ', 'bad', 'a!b@c.de', 'a@.co'
    [key |-> <<"E","-","M","a","i","l">>,
     values |-> {None, <<" ","A","@","b",".","c","o"," ">>, <<"b","a","d">>, <<"a","!","b","@","c",".","d","e">>, <<"a","@",".","c","o">>}],
    \* phone_number: 'abc'
    [key |-> <<"p","h","o","n","e","_","n","u","m","b","e","r">>,
     values |-> {<<"a","b","c">>}]
  >>

\* phone values with few digits, with separators and with a run of digits
PhoneTable ==
  <<
    \* email: 'a@b.co', 'a@b'
    [key |-> <<"e","m","a","i","l">>,
     values |-> {<<"a","@","b",".","c","o">>, <<"a","@","b">>}],
    \* Phone: None, ' 555 ', '555-123-4567', '1234567', '+1 234567'
    [key |-> <<"P","h","o","n","e">>,
     values |-> {None, <<" ","5","5","5"," ">>, <<"5","5","5","-","1","2","3","-","4","5","6","7">>, <<"1","2","3","4","5","6","7">>, <<"+","1"," ","2","3","4","5","6","7">>}]
  >>

\* dates in ISO and US form, a day no month has, years out of range, and the
\* text None
DateTable ==
  <<
    \* emp_id: '1'
    [key |-> <<"e","m","p","_","i","d">>,
     values |-> {<<"1">>}],
    \* Start Date: None, '2020-01-05', '05/06/2020', '2020-02-30', '1949-12-31'
    [key |-> <<"S","t","a","r","t"," ","D","a","t","e">>,
     values |-> {None, <<"2","0","2","0","-","0","1","-","0","5">>, <<"0","5","/","0","6","/","2","0","2","0">>, <<"2","0","2","0","-","0","2","-","3","0">>, <<"1","9","4","9","-","1","2","-","3","1">>}],
    \* DOB: '1990-05-10', '32/13/2020', '2015-01-01', 'None'
    [key |-> <<"D","O","B">>,
     values |-> {<<"1","9","9","0","-","0","5","-","1","0">>, <<"3","2","/","1","3","/","2","0","2","0">>, <<"2","0","1","5","-","0","1","-","0","1">>, <<"N","o","n","e">>}]
  >>

\* a column under a label that is a synonym of phone_number, beside a column
\* for the email
ContactTable ==
  <<
    \* fname: 'Al'
    [key |-> <<"f","n","a","m","e">>,
     values |-> {<<"A","l">>}],
    \* Mail: None, 'x@y.io'
    [key |-> <<"M","a","i","l">>,
     values |-> {None, <<"x","@","y",".","i","o">>}],
    \* Contact: None, 'a@b.co', '5550100'
    [key |-> <<"C","o","n","t","a","c","t">>,
     values |-> {None, <<"a","@","b",".","c","o">>, <<"5","5","5","0","1","0","0">>}]
  >>

Tables == {IdTable, EmailTable, PhoneTable, DateTable, ContactTable}

\* the rows of a table: one value of each column
RowsOf(table) ==
  LET all == UNION {table[i].values : i \in 1..Len(table)}
  IN  { [i \in 1..Len(table) |-> [key |-> table[i].key, value |-> pick[i]]] :
          pick \in {p \in [1..Len(table) -> all] :
                      \A i \in 1..Len(table) : p[i] \in table[i].values} }

RawRows == UNION {RowsOf(t) : t \in Tables}

Labels(row) == [i \in 1..Len(row) |-> row[i].key]

\* the longest raw_data
MaxRows == 2

\* a scraper as __init__ leaves it, with the default max_retries and
\* retry_delay, and no download under way
NoDownload ==
  /\ max_retries = 5
  /\ retry_delay = 3
  /\ attempt = 0
  /\ sleeps = <<>>
  /\ last_error = None
  /\ download = None

----------------------------------------------------------------------------
(* The pipeline: rows arrive, map_employee_fields runs over them, then     *)
(* validate_employee_data over its result                                  *)

Init ==
  /\ raw_data = <<>>
  /\ mapped_data = <<>>
  /\ validation_results = [valid |-> <<>>, invalid |-> <<>>, warnings |-> <<>>]
  /\ pc = "input"
  /\ self_field_mappings = field_mappings
  /\ results = None
  /\ NoDownload

\* the parser's next record; the records of one file share its header
AddRow ==
  /\ pc = "input"
  /\ Len(raw_data) < MaxRows
  /\ \E row \in RawRows :
       /\ IF raw_data = <<>> THEN TRUE ELSE Labels(row) = Labels(raw_data[1])
       /\ raw_data' = Append(raw_data, row)
  /\ UNCHANGED <<mapped_data, validation_results, pc, self_field_mappings,
                 results, download_vars>>

MapEmployeeFields ==
  /\ pc = "input"
  /\ mapped_data' = map_employee_fields(raw_data)
  /\ pc' = "mapped"
  /\ UNCHANGED <<raw_data, validation_results, self_field_mappings,
                 results, download_vars>>

ValidateEmployeeData ==
  /\ pc = "mapped"
  /\ validation_results' = validate_employee_data(mapped_data)
  /\ mapped_data' = employees_after_validate(mapped_data)
  /\ pc' = "validated"
  /\ UNCHANGED <<raw_data, self_field_mappings, results, download_vars>>

Next == AddRow \/ MapEmployeeFields \/ ValidateEmployeeData

Spec == Init /\ [][Next]_vars

\* the pipeline of a scraper whose field_mappings attribute the caller may
\* have assigned before the run
InitMappings ==
  /\ raw_data = <<>>
  /\ mapped_data = <<>>
  /\ validation_results = [valid |-> <<>>, invalid |-> <<>>, warnings |-> <<>>]
  /\ pc = "input"
  /\ self_field_mappings \in MappingTables
  /\ results = None
  /\ NoDownload

SpecMappings == InitMappings /\ [][Next]_vars

----------------------------------------------------------------------------
(* map_employee_fields over one record with a date: the day, month and     *)
(* year in both orders under each separator, and the other forms           *)

\* the separators of the numeric formats
DateSeparators == {"-", "/", "."}

\* months, as text
MonthTexts == {<<"0","5">>, <<"0","6">>, <<"1">>}

\* days, one of them no month
DayTexts == {<<"0","5">>, <<"0","6">>, <<"1">>, <<"1","3">>}

YearText == <<"2","0","2","0">>

\* year, month, day
YearFirst ==
  {YearText \o <<sep>> \o m \o <<sep>> \o d :
     sep \in DateSeparators, m \in MonthTexts, d \in DayTexts}

\* two numbers, at least one of them a month, and the year
YearLast ==
  {p[1] \o <<sep>> \o p[2] \o <<sep>> \o YearText :
     sep \in DateSeparators,
     p \in {p \in DayTexts \X DayTexts : p[1] \in MonthTexts \/ p[2] \in MonthTexts}}

\* the compact and the T form, month names, a time of day, a day the month
\* lacks, text that is no date, and white space around a date
OtherDates ==
  {
    \* '20200105'
    <<"2","0","2","0","0","1","0","5">>,
    \* '2020-01-05T10:00:00'
    <<"2","0","2","0","-","0","1","-","0","5","T","1","0",":","0","0",":","0","0">>,
    \* 'January 5, 2020'
    <<"J","a","n","u","a","r","y"," ","5",","," ","2","0","2","0">>,
    \* '5 Jan 2020'
    <<"5"," ","J","a","n"," ","2","0","2","0">>,
    \* 'jan 05, 2020'
    <<"j","a","n"," ","0","5",","," ","2","0","2","0">>,
    \* '2020-01-05 10:00:00'
    <<"2","0","2","0","-","0","1","-","0","5"," ","1","0",":","0","0",":","0","0">>,
    \* '01/05/2020 10:00:00'
    <<"0","1","/","0","5","/","2","0","2","0"," ","1","0",":","0","0",":","0","0">>,
    \* '02/30/2020'
    <<"0","2","/","3","0","/","2","0","2","0">>,
    \* '2020-02-30'
    <<"2","0","2","0","-","0","2","-","3","0">>,
    \* 'not a date'
    <<"n","o","t"," ","a"," ","d","a","t","e">>,
    \* 'nan'
    <<"n","a","n">>,
    \* ' 2020-01-05 '
    <<" ","2","0","2","0","-","0","1","-","0","5"," ">>
  }

DateStrings == YearFirst \cup YearLast \cup OtherDates

DateLabels == {<<"S","t","a","r","t"," ","D","a","t","e">>, <<"D","O","B">>}

\* the parser's one record: an identifier and a date under one of the labels
AddDateRow ==
  /\ pc = "input"
  /\ raw_data = <<>>
  /\ \E label \in DateLabels, date_str \in DateStrings :
       raw_data' = << << [key |-> <<"e","m","p","_","i","d">>, value |-> <<"1">>],
                         [key |-> label, value |-> date_str] >> >>
  /\ UNCHANGED <<mapped_data, validation_results, pc, self_field_mappings,
                 results, download_vars>>

NextDates == AddDateRow \/ MapEmployeeFields

SpecDates == Init /\ [][NextDates]_vars

----------------------------------------------------------------------------
(* The two steps called again: validate_employee_data on the list it has   *)
(* already been given, and both steps once more over the same records      *)

ValidateAgain ==
  /\ pc = "validated"
  /\ validation_results' = validate_employee_data(mapped_data)
  /\ mapped_data' = employees_after_validate(mapped_data)
  /\ pc' = "validated_twice"
  /\ UNCHANGED <<raw_data, self_field_mappings, results, download_vars>>

MapAgain ==
  /\ pc = "validated"
  /\ mapped_data' = map_employee_fields(raw_data)
  /\ pc' = "mapped_again"
  /\ UNCHANGED <<raw_data, validation_results, self_field_mappings,
                 results, download_vars>>

ValidateSecondRun ==
  /\ pc = "mapped_again"
  /\ validation_results' = validate_employee_data(mapped_data)
  /\ mapped_data' = employees_after_validate(mapped_data)
  /\ pc' = "second_run"
  /\ UNCHANGED <<raw_data, self_field_mappings, results, download_vars>>

NextRerun == Next \/ ValidateAgain \/ MapAgain \/ ValidateSecondRun

SpecRerun == Init /\ [][NextRerun]_vars

----------------------------------------------------------------------------
(* download_file_with_retry: a request is what session.get raises, or the   *)
(* status, the headers and the chunks of its response; bytes are sequences *)

\* the requests the model draws from: a time-out, a 404, a response without
\* content, one with an empty chunk among its chunks, and the response of
\* the test
Responses ==
  { [exception |-> "ConnectTimeout", status |-> 0, headers |-> <<>>, chunks |-> <<>>],
    [exception |-> "", status |-> 404, headers |-> <<>>, chunks |-> <<>>],
    [exception |-> "", status |-> 200, headers |-> <<>>, chunks |-> << <<>> >>],
    [exception |-> "", status |-> 200, headers |-> <<>>,
     chunks |-> << <<>>, <<"a",",","b">>, <<"\n">> >>],
    [exception |-> "", status |-> 200,
     headers |-> ("content-length" :> "7"),
     chunks |-> << <<"i","d","\n">>, <<"1">> >>],
    [exception |-> "", status |-> 200,
     headers |-> ("content-type" :> "text/csv"),
     chunks |-> << <<"i","d",",","n","\n","1",",","J">> >>] }

\* content += chunk for every chunk that is not empty, from chunk j on
RECURSIVE read_chunks(_, _)
read_chunks(chunks, j) ==
  IF j > Len(chunks) THEN <<>>
  ELSE chunks[j] \o read_chunks(chunks, j + 1)

\* response.headers.get(name, default)
header(headers, name, default) ==
  IF name \in DOMAIN headers THEN headers[name] ELSE default

headers_info(response) ==
  [content_type |-> header(response.headers, "content-type", ""),
   content_disposition |-> header(response.headers, "content-disposition", ""),
   content_length |-> header(response.headers, "content-length", "0")]

\* the try block: what it returns, or the exception the except clause gets,
\* an exception being the tuple of its arguments
try_download(response) ==
  IF response.exception # ""
    THEN [ok |-> FALSE, error |-> <<response.exception>>]
  ELSE IF response.status >= 400
    THEN [ok |-> FALSE, error |-> <<"HTTPError">>]
  ELSE IF Len(read_chunks(response.chunks, 1)) = 0
    THEN [ok |-> FALSE, error |-> <<"Downloaded file is empty">>]
  ELSE [ok |-> TRUE,
        content |-> read_chunks(response.chunks, 1),
        headers_info |-> headers_info(response)]

\* wait_time with the delay as it is
wait_time_constant(delay, failed_attempt) == delay

\* wait_time = self.retry_delay * attempt
wait_time(delay, failed_attempt) == delay * failed_attempt

\* the most attempts a scraper of the model is built for
MaxRetries == 3

RetryDelays == {1, 3}

\* a scraper built with some max_retries and retry_delay, at the call of
\* download_file_with_retry
InitDownload ==
  /\ raw_data = <<>>
  /\ mapped_data = <<>>
  /\ validation_results = [valid |-> <<>>, invalid |-> <<>>, warnings |-> <<>>]
  /\ self_field_mappings = field_mappings
  /\ results = None
  /\ pc = "download"
  /\ max_retries \in 0..MaxRetries
  /\ retry_delay \in RetryDelays
  /\ attempt = 0
  /\ sleeps = <<>>
  /\ last_error = None
  /\ download = None

\* one pass of the loop: the request, and after a failure the sleep
DownloadAttempt ==
  /\ pc = "download"
  /\ attempt < max_retries
  /\ attempt' = attempt + 1
  /\ \E response \in Responses :
       IF try_download(response).ok
         THEN /\ download' = [content |-> try_download(response).content,
                              headers_info |-> try_download(response).headers_info]
              /\ pc' = "downloaded"
              /\ UNCHANGED <<last_error, sleeps>>
         ELSE /\ last_error' = try_download(response).error
              /\ sleeps' = IF attempt + 1 < max_retries
                             THEN Append(sleeps, wait_time(retry_delay, attempt + 1))
                             ELSE sleeps
              /\ UNCHANGED <<download, pc>>
  /\ UNCHANGED <<raw_data, mapped_data, validation_results, self_field_mappings,
                 results, max_retries, retry_delay>>

\* the raise after the loop
RaiseDownloadFailed ==
  /\ pc = "download"
  /\ attempt >= max_retries
  /\ download' = [raised |-> "Failed to download file",
                  attempts |-> max_retries, last_error |-> last_error]
  /\ pc' = "download_failed"
  /\ UNCHANGED <<raw_data, mapped_data, validation_results, self_field_mappings,
                 results, max_retries, retry_delay, attempt, sleeps, last_error>>

NextDownload == DownloadAttempt \/ RaiseDownloadFailed

SpecDownload == InitDownload /\ [][NextDownload]_vars

----------------------------------------------------------------------------
(* scrape_employee_data from the parsed records on: the check for data,    *)
(* the mapping, the validation and the results it returns                  *)

\* the run without the check for data: no raw_data counts as empty
no_data_unchecked(raw) == FALSE

\* not raw_data
no_data(raw) == raw = <<>>

\* datetime.now().isoformat() at the moments the model draws from
Timestamps == {"2026-11-04T09:00:00", "2026-11-04T09:00:07"}

\* what the except clause returns
failure_result(error, now) ==
  [success |-> FALSE, error |-> error, timestamp |-> now]

\* round(count / total * 100, 2), in hundredths of a percent: the nearest
\* hundredth, the even one of two equally near
percentage(count, total) ==
  IF 2 * ((count * 10000) % total) > total
       \/ (2 * ((count * 10000) % total) = total
             /\ ((count * 10000) \div total) % 2 = 1)
    THEN (count * 10000) \div total + 1
    ELSE (count * 10000) \div total

\* success_rate with the rows of the file for the mapped records
success_rate_of_rows(raw, mapped, validation) ==
  IF raw # <<>> THEN percentage(Len(validation.valid), Len(raw)) ELSE 0

\* round((len(valid) / len(mapped_data)) * 100, 2) if mapped_data else 0
success_rate(raw, mapped, validation) ==
  IF mapped # <<>> THEN percentage(Len(validation.valid), Len(mapped)) ELSE 0

data_summary(raw, mapped, validation) ==
  [total_rows_in_file |-> Len(raw),
   employees_mapped |-> Len(mapped),
   valid_employees |-> Len(validation.valid),
   invalid_employees |-> Len(validation.invalid),
   success_rate |-> success_rate(raw, mapped, validation),
   target_achieved |-> Len(validation.valid) >= 1000]

\* the canonical fields in the order _analyze_field_coverage lists them
coverage_fields ==
  {"employee_id", "first_name", "last_name", "email", "job_title",
   "phone_number", "hire_date", "date_of_birth"}

\* sum(1 for emp in valid_employees if emp.get(field))
field_count(valid_employees, field) ==
  Cardinality({j \in 1..Len(valid_employees) :
                 Truthy(get(valid_employees[j], field))})

\* _analyze_field_coverage: {} when there is no valid record
analyze_field_coverage(valid_employees) ==
  IF valid_employees = <<>> THEN <<>>
  ELSE [field \in coverage_fields |->
          [count |-> field_count(valid_employees, field),
           percentage |-> percentage(field_count(valid_employees, field),
                                     Len(valid_employees))]]

\* the first 10 distinct phones, in the order of the records, from index j on
RECURSIVE sample_formats(_, _, _)
sample_formats(valid_employees, j, samples) ==
  IF j > Len(valid_employees) THEN samples
  ELSE sample_formats(valid_employees, j + 1,
         IF /\ Truthy(get(valid_employees[j], "phone_number"))
            /\ Len(samples) < 10
            /\ \A k \in 1..Len(samples) :
                 samples[k] # valid_employees[j]["phone_number"]
           THEN Append(samples, valid_employees[j]["phone_number"])
           ELSE samples)

\* _analyze_phone_numbers
analyze_phone_numbers(valid_employees) ==
  [total_with_phone |-> field_count(valid_employees, "phone_number"),
   potentially_invalid |->
     Cardinality({j \in 1..Len(valid_employees) :
                    /\ Truthy(get(valid_employees[j], "phone_number"))
                    /\ ~has_digit_run(valid_employees[j]["phone_number"])}),
   formats_preserved |-> <<>>,
   sample_formats |-> sample_formats(valid_employees, 1, <<>>)]

\* the results of a run that raised nothing; the timing and the file_info of
\* the download are left out
success_result(raw, mapped, validation, now) ==
  [success |-> TRUE,
   timestamp |-> now,
   data_summary |-> data_summary(raw, mapped, validation),
   field_coverage |-> analyze_field_coverage(validation.valid),
   phone_number_stats |-> analyze_phone_numbers(validation.valid),
   employees |-> [valid |-> validation.valid, invalid |-> validation.invalid]]

\* if not raw_data: raise ValueError("No data found in the file"), which the
\* except clause turns into the failure result
CheckRawData ==
  /\ pc = "input"
  /\ IF no_data(raw_data)
       THEN /\ \E now \in Timestamps :
                 results' = failure_result("No data found in the file", now)
            /\ pc' = "failed"
       ELSE /\ results' = results
            /\ pc' = "parsed"
  /\ UNCHANGED <<raw_data, mapped_data, validation_results,
                 self_field_mappings, download_vars>>

\* Step 4
ScrapeMapFields ==
  /\ pc = "parsed"
  /\ mapped_data' = map_employee_fields(raw_data)
  /\ pc' = "mapped"
  /\ UNCHANGED <<raw_data, validation_results, self_field_mappings,
                 results, download_vars>>

\* Step 6
CompileResults ==
  /\ pc = "validated"
  /\ \E now \in Timestamps :
       results' = success_result(raw_data, mapped_data, validation_results, now)
  /\ pc' = "done"
  /\ UNCHANGED <<raw_data, mapped_data, validation_results,
                 self_field_mappings, download_vars>>

NextScrape ==
  \/ AddRow
  \/ CheckRawData
  \/ ScrapeMapFields
  \/ ValidateEmployeeData
  \/ CompileResults

SpecScrape == Init /\ [][NextScrape]_vars

----------------------------------------------------------------------------
(* Properties of the pipeline *)

valid == validation_results.valid

invalid == validation_results.invalid

Mapped == pc \in {"mapped", "validated"}

Validated == pc = "validated"

\* how often x occurs in the sequence s
Occurrences(s, x) == Cardinality({j \in 1..Len(s) : s[j] = x})

InvalidEmployees == [k \in 1..Len(invalid) |-> invalid[k].employee]

\* the warnings attached to a record
Attached(employee) ==
  IF "_warnings" \in DOMAIN employee THEN Range(employee["_warnings"]) ELSE {}

\* C1: after validate_employee_data every record of the list it was given is
\* in exactly one of the valid and the invalid list: in one of them, once, and
\* not in the other; the two lists together are as long as the list of
\* mapped records
PartitionTotality ==
  Validated =>
    /\ Len(valid) + Len(invalid) = Len(mapped_data)
    /\ \A i \in 1..Len(mapped_data) :
         Occurrences(valid, mapped_data[i])
           + Occurrences(InvalidEmployees, mapped_data[i]) = 1

\* a run that filled both partitions
BothPartitionsFilled == Validated /\ Len(valid) >= 1 /\ Len(invalid) >= 1

\* the dates of a record that are present
PresentDates(employee) ==
  {f \in {"hire_date", "date_of_birth"} : Truthy(get(employee, f))}

\* C2: a record with a hire_date or date_of_birth that is present and that the
\* validator's re-parse fails on is never in the valid list
UnparseableDateIsInvalid ==
  Validated =>
    \A j \in 1..Len(valid) :
      \A f \in PresentDates(valid[j]) :
        valid[j][f] # NoneStr => reparse(valid[j][f]).ok

\* C3: a record for which the validator raises no issue is in the valid list
\* whatever warnings it has, and carries exactly those warnings there
WarningsNeverReject ==
  Validated =>
    \A i \in 1..Len(mapped_data) :
      LET employee == mapped_data[i]
      IN  issues_of(employee) = <<>> =>
            /\ Occurrences(valid, employee) = 1
            /\ warnings_of(employee) # <<>> =>
                 get(employee, "_warnings") = warnings_of(employee)

\* a valid record that carries the phone-format warning among others
ValidWithWarnings ==
  /\ Validated
  /\ \E j \in 1..Len(valid) :
       /\ issues_of(valid[j]) = <<>>
       /\ Truthy(get(valid[j], "phone_number"))
       /\ PhoneMayBeInvalid \o valid[j]["phone_number"] \in Attached(valid[j])
       /\ MissingHireDate \in Attached(valid[j])

\* the raw row a record was mapped from
RawRowOf(employee) == raw_data[employee["_row_number"]]

\* the positions of the character c in s
Positions(s, c) == {i \in 1..Len(s) : s[i] = c}

\* the shape the specification states for an email: exactly one @, something
\* before it, a dot in the domain and two or more letters after the last dot
StatedShape(s) ==
  /\ Cardinality(Positions(s, "@")) = 1
  /\ LET at == CHOOSE i \in Positions(s, "@") : TRUE
         dots == {i \in Positions(s, ".") : i > at}
     IN  /\ at > 1
         /\ dots # {}
         /\ Len(s) - Max(dots) >= 2
         /\ \A i \in (Max(dots) + 1)..Len(s) : s[i] \in Letters

\* the stated shape, the local part of letters, digits and . _ % + - only, the
\* domain of letters, digits, dots and hyphens only, and something between the
\* @ and the last dot
StrictShape(s) ==
  /\ StatedShape(s)
  /\ LET at == CHOOSE i \in Positions(s, "@") : TRUE
     IN  /\ \A i \in 1..(at - 1) : s[i] \in LocalChars
         /\ \A i \in (at + 1)..Len(s) : s[i] \in DomainChars
         /\ Max(Positions(s, ".")) > at + 1

\* the row resolves to no identifier and no name, and to an email that fails
\* the stated shape
OnlyBadEmail(row) ==
  LET employee == map_fields(row)
  IN  /\ Truthy(get(employee, "email"))
      /\ ~StatedShape(employee["email"])
      /\ \A f \in {"employee_id", "first_name", "last_name"} : ~Truthy(get(employee, f))

\* the invalid entries that report row i
InvalidAt(i) == {k \in 1..Len(invalid) : invalid[k].row = i}

\* C4: a row whose only non-empty identifying field is an email that fails the
\* shape check is retained by map_employee_fields and is then in the invalid
\* list, with the issue "Invalid email format", whatever its other fields hold
BadEmailOnlyIsInvalid ==
  Validated =>
    \A i \in 1..Len(raw_data) :
      OnlyBadEmail(raw_data[i]) =>
        /\ \E j \in 1..Len(mapped_data) : mapped_data[j]["_row_number"] = i
        /\ \A j \in 1..Len(valid) : valid[j]["_row_number"] # i
        /\ \E k \in InvalidAt(i) : InvalidEmailFormat \in Range(invalid[k].issues)

\* a row with only a badly shaped email, reported invalid
BadEmailOnlyRejected ==
  /\ Validated
  /\ \E i \in 1..Len(raw_data) : OnlyBadEmail(raw_data[i]) /\ InvalidAt(i) # {}

\* the issues the invalid list records for a record
RecordedIssues(employee) ==
  UNION {Range(invalid[k].issues) : k \in {k \in 1..Len(invalid) : invalid[k].employee = employee}}

\* C5 as stated: no email of the stated shape gets the issue "Invalid email
\* format"
EmailIssueOnlyForStatedShape ==
  Validated =>
    \A i \in 1..Len(mapped_data) :
      LET employee == mapped_data[i]
      IN  Truthy(get(employee, "email")) /\ StatedShape(employee["email"]) =>
            /\ InvalidEmailFormat \notin RecordedIssues(employee)
            /\ InvalidEmailFormat \notin Range(issues_of(employee))

\* C5: no email of the stated shape whose local part is of letters, digits and
\* . _ % + - only, whose domain is of letters, digits, dots and hyphens only and
\* has a character before its last dot, gets the issue "Invalid email format"
EmailIssueOnlyForStrictShape ==
  Validated =>
    \A i \in 1..Len(mapped_data) :
      LET employee == mapped_data[i]
      IN  Truthy(get(employee, "email")) /\ StrictShape(employee["email"]) =>
            /\ InvalidEmailFormat \notin RecordedIssues(employee)
            /\ InvalidEmailFormat \notin Range(issues_of(employee))

\* a record with a well-shaped email went through the validator
GoodEmailValidated ==
  /\ Validated
  /\ \E j \in 1..Len(valid) :
       Truthy(get(valid[j], "email")) /\ StrictShape(valid[j]["email"])

\* the labels of the phone columns of the tables
PhoneLabels ==
  {<<"P","h","o","n","e">>, <<"p","h","o","n","e","_","n","u","m","b","e","r">>,
   <<"C","o","n","t","a","c","t">>}

\* the raw value of the phone cell of a row
RawPhone(row) ==
  row[CHOOSE i \in 1..Len(row) : row[i].key \in PhoneLabels].value

\* the number of digits in s
DigitCount(s) == Cardinality({i \in 1..Len(s) : s[i] \in Digits})

\* the phone-format warning of a phone value
PhoneWarning(phone) == PhoneMayBeInvalid \o phone

\* the record's phone is its raw value less the white space around it
PhoneKept(employee) ==
  LET raw == RawPhone(RawRowOf(employee))
      outer == {i \in 1..Len(raw) : raw[i] \notin Whitespace}
  IN  employee["phone_number"] = SubSeq(raw, Min(outer), Max(outer))

\* C6: the phone_number of every mapped and of every valid record that has one
\* is the raw value with only the white space around it removed, and a valid
\* record whose phone has fewer than 7 digits carries the phone-format warning
PhonePreservation ==
  /\ Mapped =>
       \A j \in 1..Len(mapped_data) :
         Truthy(get(mapped_data[j], "phone_number")) => PhoneKept(mapped_data[j])
  /\ Validated =>
       \A j \in 1..Len(valid) :
         Truthy(get(valid[j], "phone_number")) =>
           /\ PhoneKept(valid[j])
           /\ DigitCount(valid[j]["phone_number"]) < 7 =>
                PhoneWarning(valid[j]["phone_number"]) \in Attached(valid[j])

\* a valid record whose phone had white space around it and has separators
\* inside it
PhoneKeptVerbatim ==
  /\ Validated
  /\ \E j \in 1..Len(valid) :
       /\ get(valid[j], "phone_number") = <<"5","5","5","-","1","2","3","-","4","5","6","7">>
  /\ \E j \in 1..Len(valid) :
       /\ get(valid[j], "phone_number") = <<"5","5","5">>
       /\ RawPhone(RawRowOf(valid[j])) # <<"5","5","5">>
       /\ PhoneWarning(valid[j]["phone_number"]) \in Attached(valid[j])

\* C7: a valid record with a phone carries the phone-format warning exactly
\* when the phone holds fewer than 7 digits in all
PhoneWarningIffFewDigits ==
  Validated =>
    \A j \in 1..Len(valid) :
      Truthy(get(valid[j], "phone_number")) =>
        (PhoneWarning(valid[j]["phone_number"]) \in Attached(valid[j])
           <=> DigitCount(valid[j]["phone_number"]) < 7)

\* the normalized synonyms of the four identifying fields
IdentifyingSynonyms ==
  UNION {Range(normalized_mappings[f]) :
           f \in {f \in 1..Len(field_mappings) :
                    field_mappings[f].standard_field
                      \in {"employee_id", "first_name", "last_name", "email"}}}

\* the cells of a row that hold a value
Filled(row) ==
  {i \in 1..Len(row) : row[i].value # None /\ strip(row[i].value) # <<>>}

\* some filled cell of the row stands under a label of an identifying field
Identifying(row) ==
  \E i \in Filled(row) : normalize_field_name(row[i].key) \in IdentifyingSynonyms

\* C8: map_employee_fields yields one record for every raw row that has a value
\* for employee_id, first_name, last_name or email, and none for any other row
InclusionRule ==
  Mapped =>
    \A i \in 1..Len(raw_data) :
      Cardinality({j \in 1..Len(mapped_data) : mapped_data[j]["_row_number"] = i})
        = IF Identifying(raw_data[i]) THEN 1 ELSE 0

\* a row with a phone and no identifying value was dropped beside a row that
\* was retained
RowDropped ==
  /\ Mapped
  /\ Len(mapped_data) = 1
  /\ \E i \in 1..Len(raw_data) : ~Identifying(raw_data[i]) /\ Filled(raw_data[i]) # {}

\* the positions in raw_data of the rows with an identifying value
RetainedRows == {i \in 1..Len(raw_data) : Identifying(raw_data[i])}

\* C9: the j-th record's _row_number is the position in raw_data of the j-th
\* row with an identifying value, so the row numbers increase strictly; and
\* an invalid entry's row is its record's _row_number
RowNumberIsRawPosition ==
  /\ Mapped =>
       /\ \A j \in 1..Len(mapped_data) :
            LET n == mapped_data[j]["_row_number"]
            IN  n \in RetainedRows /\ Cardinality({i \in RetainedRows : i <= n}) = j
       /\ \A j \in 1..Len(mapped_data) : \A k \in 1..Len(mapped_data) :
            j < k => mapped_data[j]["_row_number"] < mapped_data[k]["_row_number"]
  /\ Validated =>
       \A k \in 1..Len(invalid) :
         /\ invalid[k].row = invalid[k].employee["_row_number"]
         /\ invalid[k].employee = mapped_data[CHOOSE j \in 1..Len(mapped_data) :
                                      mapped_data[j]["_row_number"] = invalid[k].row]

\* the only record comes from the second row and is reported invalid there
SecondRowReported ==
  /\ Validated
  /\ Len(mapped_data) = 1
  /\ Len(invalid) = 1
  /\ invalid[1].row = 2

\* the filled cell of the row whose label normalizes to normalized_key, trimmed
ColumnValue(row, normalized_key) ==
  strip(row[CHOOSE i \in Filled(row) :
              normalize_field_name(row[i].key) = normalized_key].value)

\* the labels of the filled cells, normalized
FilledLabels(row) == {normalize_field_name(row[i].key) : i \in Filled(row)}

\* the value of the cell under the given label
Cell(row, label) == row[CHOOSE i \in 1..Len(row) : row[i].key = label].value

HasCell(row, label) == \E i \in Filled(row) : row[i].key = label

\* C10: a canonical field of a record is the processed value of the filled
\* column that matches the earliest matching synonym of the field, and is
\* absent when no synonym matches; with User ID and Employee-ID both filled,
\* employee_id is the Employee-ID value
HeaderPrecedence ==
  Mapped =>
    \A j \in 1..Len(mapped_data) :
      LET employee == mapped_data[j]
          row == RawRowOf(employee)
          labels == FilledLabels(row)
      IN  /\ \A f \in 1..Len(field_mappings) :
               LET name == field_mappings[f].standard_field
                   keys == normalized_mappings[f]
                   hits == {k \in 1..Len(keys) : keys[k] \in labels}
               IN  IF hits = {} THEN name \notin DOMAIN employee
                   ELSE /\ name \in DOMAIN employee
                        /\ \E k \in hits :
                             /\ \A h \in hits : k <= h
                             /\ employee[name]
                                  = process_value(name, ColumnValue(row, keys[k]))
          /\ HasCell(row, <<"U","s","e","r"," ","I","D">>) /\ HasCell(row, <<"E","m","p","l","o","y","e","e","-","I","D">>) =>
               employee["employee_id"] = strip(Cell(row, <<"E","m","p","l","o","y","e","e","-","I","D">>))

\* a record whose row fills both columns, and a record whose row fills User
\* ID only
BothIdColumns ==
  /\ Mapped
  /\ \E j \in 1..Len(mapped_data) :
       /\ HasCell(RawRowOf(mapped_data[j]), <<"U","s","e","r"," ","I","D">>)
       /\ HasCell(RawRowOf(mapped_data[j]), <<"E","m","p","l","o","y","e","e","-","I","D">>)
       /\ mapped_data[j]["employee_id"] = <<"E","1">>
  /\ \E j \in 1..Len(mapped_data) :
       /\ HasCell(RawRowOf(mapped_data[j]), <<"U","s","e","r"," ","I","D">>)
       /\ ~HasCell(RawRowOf(mapped_data[j]), <<"E","m","p","l","o","y","e","e","-","I","D">>)
       /\ mapped_data[j]["employee_id"] = <<"u","7">>

----------------------------------------------------------------------------
(* The columns the canonical fields take their values from *)

\* the canonical fields, by position in self.field_mappings, that the row
\* fills
MatchedFields(row) ==
  {f \in 1..Len(self_field_mappings) : matching_keys(normalized_row(row), f) # {}}

\* the column, by position among the non-empty cells of the row, whose value
\* canonical field f takes
SupplyingColumn(row, f) ==
  LET nrow == normalized_row(row)
      key == normalized_keys[f][first_match(nrow, f)]
  IN  Max({i \in 1..Len(nrow) : nrow[i].key = key})

\* no column of the row supplies two canonical fields
NoColumnReuse(row) ==
  \A f, g \in MatchedFields(row) :
    f < g => SupplyingColumn(row, f) # SupplyingColumn(row, g)

\* C11 as stated: whatever the synonym table, no raw column supplies the
\* value of two canonical fields of a mapped record
NoColumnReuseAnyTable ==
  pc # "input" =>
    \A j \in 1..Len(mapped_data) : NoColumnReuse(RawRowOf(mapped_data[j]))

\* C11: with the synonym table __init__ sets, in which no synonym is listed
\* under two canonical fields, no raw column supplies the value of two
\* canonical fields of a mapped record
NoColumnReuseShippedTable ==
  (pc # "input" /\ self_field_mappings = field_mappings) =>
    \A j \in 1..Len(mapped_data) : NoColumnReuse(RawRowOf(mapped_data[j]))

\* with that table a record was mapped whose email and phone_number come from
\* two columns, Mail and Contact
TwoFieldsTwoColumns ==
  /\ pc # "input"
  /\ self_field_mappings = field_mappings
  /\ \E j \in 1..Len(mapped_data) :
       /\ get(mapped_data[j], "email") = <<"x","@","y",".","i","o">>
       /\ get(mapped_data[j], "phone_number") = <<"5","5","5","0","1","0","0">>
       /\ Cardinality(MatchedFields(RawRowOf(mapped_data[j]))) = 3

----------------------------------------------------------------------------
(* The results of scrape_employee_data *)

\* C12: a run whose parsed records are empty ends with one failure result,
\* success false with the message of the check and a timestamp and nothing
\* else, and neither the mapping nor the validation has run; a run that got
\* as far as the mapping had records
EmptySourceFails ==
  /\ (raw_data = <<>> /\ pc # "input") =>
       /\ pc = "failed"
       /\ DOMAIN results = {"success", "error", "timestamp"}
       /\ results.success = FALSE
       /\ results.error = "No data found in the file"
       /\ results.timestamp \in Timestamps
       /\ mapped_data = <<>>
       /\ validation_results = [valid |-> <<>>, invalid |-> <<>>, warnings |-> <<>>]
  /\ pc \in {"parsed", "mapped", "validated", "done"} => raw_data # <<>>
  /\ pc = "done" => results.success

\* a run over no records has returned the failure result
EmptyRunFailed ==
  /\ pc = "failed"
  /\ raw_data = <<>>
  /\ ~results.success

\* the distance of two numbers
Distance(a, b) == IF a >= b THEN a - b ELSE b - a

\* C16: the success_rate of a successful run, in hundredths of a percent, is
\* the hundredth nearest to valid / mapped * 100, and 0 when nothing was
\* mapped; it lies between 0 and 100, the valid and the invalid count add up
\* to the mapped count, and that is at most the number of rows
SuccessRateIsValidShare ==
  pc = "done" =>
    LET summary == results.data_summary
    IN  /\ summary.total_rows_in_file = Len(raw_data)
        /\ summary.employees_mapped = Len(mapped_data)
        /\ summary.valid_employees = Len(valid)
        /\ summary.invalid_employees = Len(invalid)
        /\ Len(valid) + Len(invalid) = Len(mapped_data)
        /\ Len(mapped_data) <= Len(raw_data)
        /\ summary.success_rate \in 0..10000
        /\ IF mapped_data = <<>> THEN summary.success_rate = 0
           ELSE 2 * Distance(summary.success_rate * Len(mapped_data),
                             Len(valid) * 10000) <= Len(mapped_data)

\* a run over two rows, one of them dropped by the mapping, whose one mapped
\* record is valid: the rate is 100
FullRateWithDroppedRow ==
  /\ pc = "done"
  /\ Len(raw_data) = 2
  /\ Len(mapped_data) = 1
  /\ Len(valid) = 1
  /\ results.data_summary.success_rate = 10000

----------------------------------------------------------------------------
(* The steps called again *)

\* the _row_number of every record of the two partitions, in order
RowNumbers(validation) ==
  <<[j \in 1..Len(validation.valid) |-> validation.valid[j]["_row_number"]],
    [j \in 1..Len(validation.invalid) |-> validation.invalid[j].row]>>

\* C13: validating a list a second time, and mapping and validating the same
\* raw records a second time, give the partitions of the first time: the same
\* records in the same order with the same issues, warnings and row numbers;
\* the second validation leaves the list it was given as the first left it
Idempotence ==
  [][/\ pc' \in {"validated_twice", "second_run"} =>
          /\ validation_results' = validation_results
          /\ RowNumbers(validation_results') = RowNumbers(validation_results)
     /\ pc' = "validated_twice" => mapped_data' = mapped_data]_vars

\* a list validated twice, with a valid record that carries warnings and an
\* invalid one
ValidatedTwice ==
  /\ pc = "validated_twice"
  /\ \E j \in 1..Len(valid) : Attached(valid[j]) # {}
  /\ invalid # <<>>

----------------------------------------------------------------------------
(* One record among others *)

\* the entries of the valid list for the record of row n
ValidEntries(n) == {valid[j] : j \in {j \in 1..Len(valid) : valid[j]["_row_number"] = n}}

\* the entries of the invalid list for it
InvalidEntries(n) == {invalid[k] : k \in {k \in 1..Len(invalid) : invalid[k].row = n}}

\* C14: what validate_employee_data makes of a record in a list is what it
\* makes of the record alone: the same partition, issues and warnings,
\* whatever the other records of the list are; and every record of the list
\* reaches a partition
RecordIndependence ==
  Validated =>
    /\ Len(valid) + Len(invalid) = Len(mapped_data)
    /\ \A i \in 1..Len(mapped_data) :
         LET alone == validate_employee_data(<<mapped_data[i]>>)
             n == mapped_data[i]["_row_number"]
         IN  /\ ValidEntries(n) = Range(alone.valid)
             /\ InvalidEntries(n) = Range(alone.invalid)

\* a rejected record followed by a valid one
ValidAfterInvalid ==
  /\ Validated
  /\ Len(mapped_data) = 2
  /\ InvalidEntries(mapped_data[1]["_row_number"]) # {}
  /\ ValidEntries(mapped_data[2]["_row_number"]) # {}

----------------------------------------------------------------------------
(* The three tiers of parse_date *)

\* the date fields of a record with the labels they come from
DateColumns ==
  {[field |-> "hire_date", label |-> <<"S","t","a","r","t"," ","D","a","t","e">>],
   [field |-> "date_of_birth", label |-> <<"D","O","B">>]}

\* the formats, by position in date_formats, that read s
MatchingFormats(s) ==
  {i \in 1..Len(date_formats) : strptime(s, date_formats[i]).ok}

\* YYYY-MM-DD
CanonicalDate(s) ==
  /\ Len(s) = 10
  /\ \A i \in {1, 2, 3, 4, 6, 7, 9, 10} : s[i] \in Digits
  /\ s[5] = "-" /\ s[8] = "-"

\* what the three tiers make of the trimmed string s
ThreeTiers(s, out) ==
  /\ out # None /\ out # <<>>
  /\ IF MatchingFormats(s) # {}
       THEN /\ out = isoformat(strptime(s, date_formats[Min(MatchingFormats(s))]))
            /\ CanonicalDate(out)
       ELSE IF pd_to_datetime(s).ok
         THEN out = isoformat(pd_to_datetime(s))
         ELSE out = s
  /\ s = <<"0","5","/","0","6","/","2","0","2","0">> => out = <<"2","0","2","0","-","0","5","-","0","6">>

\* C15: the date of a mapped record is its raw value, trimmed, read by the
\* first format of the list that matches and written as YYYY-MM-DD, so that
\* 05/06/2020 is the 6th of May; read by the generic parse when no format
\* matches; and the trimmed value itself when that fails too; never null or
\* empty
ThreeTierChain ==
  pc = "mapped" =>
    \A j \in 1..Len(mapped_data) : \A c \in DateColumns :
      HasCell(RawRowOf(mapped_data[j]), c.label) =>
        /\ c.field \in DOMAIN mapped_data[j]
        /\ ThreeTiers(strip(Cell(RawRowOf(mapped_data[j]), c.label)),
                      mapped_data[j][c.field])

\* 05/06/2020 mapped to a hire_date
AmbiguousDateMapped ==
  /\ pc = "mapped"
  /\ \E j \in 1..Len(mapped_data) :
       /\ HasCell(RawRowOf(mapped_data[j]), <<"S","t","a","r","t"," ","D","a","t","e">>)
       /\ Cell(RawRowOf(mapped_data[j]), <<"S","t","a","r","t"," ","D","a","t","e">>) = <<"0","5","/","0","6","/","2","0","2","0">>
       /\ mapped_data[j]["hire_date"] = <<"2","0","2","0","-","0","5","-","0","6">>

----------------------------------------------------------------------------
(* The provenance copy *)

\* the cells of a row at the positions S, in column order
CellsAt(row, S) ==
  [k \in 1..Cardinality(S) |->
     row[CHOOSE i \in S : Cardinality({j \in S : j <= i}) = k]]

\* the cells of a row that are not null
NonNull(row) == {i \in 1..Len(row) : row[i].value # None}

\* the canonical fields of a record
CanonicalFields(employee) ==
  DOMAIN employee \ {"_row_number", "_original_data", "_warnings"}

\* every canonical field of the record stands for a filled column under one of
\* its synonyms: no other column has become a field
NothingPromoted(employee) ==
  \A name \in CanonicalFields(employee) :
    \E f \in 1..Len(field_mappings) :
      /\ field_mappings[f].standard_field = name
      /\ Range(normalized_mappings[f]) \cap FilledLabels(RawRowOf(employee)) # {}

\* C17 as stated: _original_data is the cells of the raw row that hold a
\* value, those that are null, empty or white space left out, each with its
\* label and value, and no unmatched column is a field of the record
ProvenanceIsFilledCells ==
  Mapped =>
    \A j \in 1..Len(mapped_data) :
      /\ mapped_data[j]["_original_data"]
           = CellsAt(RawRowOf(mapped_data[j]), Filled(RawRowOf(mapped_data[j])))
      /\ NothingPromoted(mapped_data[j])

\* C17: _original_data is the cells of the raw row that are not null, the
\* empty and the white-space ones among them, each with its label and its
\* value as it was, and no unmatched column is a field of the record
ProvenanceIsNonNullCells ==
  Mapped =>
    \A j \in 1..Len(mapped_data) :
      /\ mapped_data[j]["_original_data"]
           = CellsAt(RawRowOf(mapped_data[j]), NonNull(RawRowOf(mapped_data[j])))
      /\ NothingPromoted(mapped_data[j])

\* a record whose provenance holds a white-space cell and the Notes column,
\* and whose row has a null cell
WhitespaceCellKept ==
  /\ Mapped
  /\ \E j \in 1..Len(mapped_data) :
       /\ [key |-> <<"E","m","p","l","o","y","e","e","-","I","D">>, value |-> <<" "," ">>]
            \in Range(mapped_data[j]["_original_data"])
       /\ [key |-> <<"N","o","t","e","s">>, value |-> <<"x">>]
            \in Range(mapped_data[j]["_original_data"])
       /\ NonNull(RawRowOf(mapped_data[j])) # 1..Len(RawRowOf(mapped_data[j]))
       /\ CanonicalFields(mapped_data[j]) = {"first_name"}

----------------------------------------------------------------------------
(* The identification check of the validator *)

\* C18: no record that map_employee_fields produced gets the issue "Missing
\* employee identification (ID, name, or email)": none of the invalid entries
\* lists it, and the checks find it on no record of the list
IdentificationCheckNeverFires ==
  Validated =>
    /\ \A k \in 1..Len(invalid) :
         MissingIdentification \notin Range(invalid[k].issues)
    /\ \A j \in 1..Len(mapped_data) :
         MissingIdentification \notin Range(issues_of(mapped_data[j]))

\* a row was dropped by the mapping and the record of the other row rejected
DroppedAndRejected ==
  /\ Validated
  /\ Len(raw_data) = 2
  /\ Len(mapped_data) = 1
  /\ Len(invalid) = 1
  /\ invalid[1].issues # <<>>

----------------------------------------------------------------------------
(* The attempts of download_file_with_retry *)

\* the waits after the failed attempts 1..n
Backoff(n) == [k \in 1..n |-> retry_delay * k]

====
